---- MODULE Spec2Model ----
(***************************************************************************)
(* Array2D<T> of richdem (libs/common/Array2D.hpp): a row-major pixel      *)
(* buffer with view/total extents, a cached data-cell count, a native      *)
(* binary format and GDAL load/save.                                       *)
(*                                                                         *)
(* T is uint8_t and U (the source type of the cross-type assignment) is    *)
(* int32_t. C++ indices are 0-based; data[i] of the code is data[i+1]      *)
(* here. The geotransform's doubles are modelled by integers.              *)
(***************************************************************************)
EXTENDS Integers, Sequences, FiniteSets, TLC

VARIABLES a, b, u, file, last

vars == <<a, b, u, file, last>>

(* ------------------------------ bounds -------------------------------- *)

\* most cells an array or a raster dataset has
MaxCells == 4

\* cell and no-data values of T = uint8_t that the operations are given
TVals == {0, 255}

\* cell and no-data values of U = int32_t
UVals == {-1, 256}

\* geotransforms a raster dataset can carry (rotated: no coefficient is 0)
GeoVals == {<<10, 2, 1, 20, 3, -5>>}

\* projection strings a raster dataset can carry
ProjVals == {"", "WGS84"}

\* <<width, height>> of the arrays the operations are asked for
Shapes == { s \in (0..MaxCells) \X (0..MaxCells) : s[1] * s[2] <= MaxCells }

(* ------------------------- the array object --------------------------- *)

\* Array2D(): every extent zero, the buffer empty, num_data_cells = -1.
\* no_data has no initialiser: it holds whatever value nd the memory held.
Array2D(nd) ==
  [ data           |-> << >>,
    total_height   |-> 0,
    total_width    |-> 0,
    view_height    |-> 0,
    view_width     |-> 0,
    view_xoff      |-> 0,
    view_yoff      |-> 0,
    num_data_cells |-> -1,
    no_data        |-> nd,
    geotransform   |-> << >>,
    projection     |-> "" ]

\* no object: not constructed yet, or its constructor threw
NoArray == [ none |-> TRUE ]

viewSize(A) == A.view_width * A.view_height

\* the buffer holds every cell the view's extents address: what operator(),
\* setRow, setCol, operator== and saveNative need to stay inside the vector
InBuffer(A) == Len(A.data) = viewSize(A)

xyToI(A, x, y) == y * A.view_width + x

\* resize keeping the old cells: data.resize without the data.clear before it
resizeKeep(A, width, height, val) ==
  [ A EXCEPT !.data = [ i \in 1..(width * height) |->
                          IF i <= Len(A.data) THEN A.data[i] ELSE val ],
             !.total_height = height, !.view_height = height,
             !.total_width  = width,  !.view_width  = width ]

\* resize(width, height, val)
resize(A, width, height, val) ==
  [ A EXCEPT !.data = [ i \in 1..(width * height) |-> val ],
             !.total_height = height, !.view_height = height,
             !.total_width  = width,  !.view_width  = width ]

setNoData(A, ndval) == [ A EXCEPT !.no_data = ndval ]

setAll(A, val) == [ A EXCEPT !.data = [ i \in DOMAIN A.data |-> val ] ]

setRow(A, y, val) ==
  [ A EXCEPT !.data = [ i \in DOMAIN A.data |->
       IF \E x \in 0..(A.view_width - 1) : i = y * A.view_width + x + 1
       THEN val ELSE A.data[i] ] ]

setCol(A, x, val) ==
  [ A EXCEPT !.data = [ i \in DOMAIN A.data |->
       IF \E y \in 0..(A.view_height - 1) : i = y * A.view_width + x + 1
       THEN val ELSE A.data[i] ] ]

\* operator()(i) = val
setCell(A, i, val) == [ A EXCEPT !.data[i + 1] = val ]

countDataCells(A) ==
  [ A EXCEPT !.num_data_cells =
       Cardinality({ i \in DOMAIN A.data : A.data[i] # A.no_data }) ]

\* the non-const numDataCells(): the array afterwards; its result is the
\* num_data_cells of that array
numDataCells(A) == IF A.num_data_cells = -1 THEN countDataCells(A) ELSE A

clear(A) == [ A EXCEPT !.data = << >> ]

\* (T)v for an int32_t v and T = uint8_t
ToT(v) == v % 256

\* operator=(const Array2D<U> &o)
assign(A, O) ==
  [ A EXCEPT !.data           = [ i \in DOMAIN O.data |-> ToT(O.data[i]) ],
             !.total_height   = O.total_height,
             !.total_width    = O.total_width,
             !.view_height    = O.view_height,
             !.view_width     = O.view_width,
             !.view_xoff      = O.view_xoff,
             !.view_yoff      = O.view_yoff,
             !.num_data_cells = O.num_data_cells,
             !.geotransform   = O.geotransform,
             !.no_data        = ToT(O.no_data) ]

(* ---------------------- the last operation's record ------------------- *)

\* no raster dataset written
NoDataset == [ none |-> TRUE ]

\* an operation that touches GDAL: exc is the message of the exception it
\* threw ("" when it returned), handle the state of the GDALDataset it got
\* ("none", "open" or "closed") when it ended, out the dataset it wrote
DidIO(op, args, ret, exc, handle, out) ==
  [ op |-> op, args |-> args, ret |-> ret, exc |-> exc, handle |-> handle,
    out |-> out ]

\* an operation that touches no dataset
Did(op, args, ret) == DidIO(op, args, ret, "", "none", NoDataset)

(* ------------------------------ Init ---------------------------------- *)

\* a is default-constructed; the second array b and the Array2D<U> u are
\* not constructed yet
Init ==
  /\ \E nd \in TVals : a = Array2D(nd)
  /\ b = NoArray
  /\ u = NoArray
  /\ file = << >>
  /\ last = Did("Array2D", << >>, 0)

(* ------------------- in-memory operations on a ------------------------ *)

Construct ==
  /\ \E nd \in TVals : a' = Array2D(nd)
  /\ last' = Did("Array2D", << >>, 0)
  /\ UNCHANGED <<b, u, file>>

\* Array2D<T> a(width, height, val), for <<width, height>> in S
ConstructSizedIn(S) ==
  \E s \in S, val \in TVals, nd \in TVals :
    /\ a' = resize(Array2D(nd), s[1], s[2], val)
    /\ last' = Did("Array2D(w,h,val)", <<s[1], s[2], val>>, 0)
    /\ UNCHANGED <<b, u, file>>

ConstructSized == ConstructSizedIn(Shapes)

Resize ==
  \E s \in Shapes, val \in TVals :
    /\ a' = resize(a, s[1], s[2], val)
    /\ last' = Did("resize", <<s[1], s[2], val>>, 0)
    /\ UNCHANGED <<b, u, file>>

SetNoData ==
  \E ndval \in TVals :
    /\ a # NoArray
    /\ a' = setNoData(a, ndval)
    /\ last' = Did("setNoData", <<ndval>>, 0)
    /\ UNCHANGED <<b, u, file>>

SetAll ==
  \E val \in TVals :
    /\ a' = setAll(a, val)
    /\ last' = Did("setAll", <<val>>, 0)
    /\ UNCHANGED <<b, u, file>>

SetRow ==
  \E y \in 0..(a.view_height - 1), val \in TVals :
    /\ InBuffer(a)
    /\ a' = setRow(a, y, val)
    /\ last' = Did("setRow", <<y, val>>, 0)
    /\ UNCHANGED <<b, u, file>>

SetCol ==
  \E x \in 0..(a.view_width - 1), val \in TVals :
    /\ InBuffer(a)
    /\ a' = setCol(a, x, val)
    /\ last' = Did("setCol", <<x, val>>, 0)
    /\ UNCHANGED <<b, u, file>>

\* a(i) = val: the asserts of operator()(int i), then the write
SetCell ==
  /\ a # NoArray
  /\ \E i \in 0..(viewSize(a) - 1), val \in TVals :
    /\ InBuffer(a)
    /\ a' = setCell(a, i, val)
    /\ last' = Did("operator()", <<i, val>>, 0)
    /\ UNCHANGED <<b, u, file>>

\* a(x, y) = val: the asserts of operator()(int x, int y), then the write
SetCellXY ==
  \E x \in 0..(a.view_width - 1), y \in 0..(a.view_height - 1), val \in TVals :
    /\ InBuffer(a)
    /\ a' = setCell(a, xyToI(a, x, y), val)
    /\ last' = Did("operator()(x,y)", <<x, y, val>>, 0)
    /\ UNCHANGED <<b, u, file>>

CountDataCells ==
  /\ a' = countDataCells(a)
  /\ last' = Did("countDataCells", << >>, 0)
  /\ UNCHANGED <<b, u, file>>

NumDataCells ==
  /\ a # NoArray
  /\ a' = numDataCells(a)
  /\ last' = Did("numDataCells", << >>, a'.num_data_cells)
  /\ UNCHANGED <<b, u, file>>

Clear ==
  /\ a' = clear(a)
  /\ last' = Did("clear", << >>, 0)
  /\ UNCHANGED <<b, u, file>>

\* a = Array2D<U>(width, height, val): assignment from a temporary
AssignTemp ==
  \E s \in Shapes, val \in UVals, nd \in UVals :
    /\ a' = assign(a, resize(Array2D(nd), s[1], s[2], val))
    /\ last' = Did("operator=", <<s[1], s[2], val, nd>>, 0)
    /\ UNCHANGED <<b, u, file>>

(* ------------------------- coordinate queries --------------------------- *)

\* nToI(i, dx, dy), for 0 <= i and view_width > 0
nToI(A, i, dx, dy) ==
  LET x == (i % A.view_width) + dx
      y == (i \div A.view_width) + dy
  IN  IF x < 0 \/ y < 0 \/ x = A.view_width \/ y = A.view_height
      THEN -1 ELSE xyToI(A, x, y)

\* largest |dx|, |dy| asked of nToI
MaxOff == 2

Offsets == (-MaxOff)..MaxOff

NToI ==
  \E i \in 0..(viewSize(a) - 1), dx \in Offsets, dy \in Offsets :
    /\ last' = Did("nToI", <<i, dx, dy>>, nToI(a, i, dx, dy))
    /\ UNCHANGED <<a, b, u, file>>

Next ==
  \/ Construct
  \/ ConstructSized
  \/ Resize
  \/ SetNoData
  \/ SetAll
  \/ SetRow
  \/ SetCol
  \/ SetCell
  \/ SetCellXY
  \/ CountDataCells
  \/ NumDataCells
  \/ Clear
  \/ AssignTemp

Spec == Init /\ [][Next]_vars

(* --------------------------- native format ---------------------------- *)

\* the fields saveNative writes, in the order it writes them: seven ints,
\* no_data, then the view's rows
saveNative(A) ==
  << A.total_height, A.total_width, A.view_height, A.view_width,
     A.view_xoff, A.view_yoff, A.num_data_cells, A.no_data >>
  \o [ k \in 1..viewSize(A) |-> A.data[k] ]

\* number of header fields of the native format
HeaderFields == 8

\* loadNative reading view_width before view_height
loadNativeSwapped(A, f) ==
  LET hdr == [ A EXCEPT !.total_height   = f[1],
                        !.total_width    = f[2],
                        !.view_width     = f[3],
                        !.view_height    = f[4],
                        !.view_xoff      = f[5],
                        !.view_yoff      = f[6],
                        !.num_data_cells = f[7],
                        !.no_data        = f[8] ]
      r   == resize(hdr, hdr.view_width, hdr.view_height, 0)
  IN  [ r EXCEPT !.data = [ k \in 1..viewSize(r) |-> f[HeaderFields + k] ] ]

\* loadNative: the header fields in file order, resize(view_width,
\* view_height) with the default fill T() = 0, then the rows
loadNative(A, f) ==
  LET hdr == [ A EXCEPT !.total_height   = f[1],
                        !.total_width    = f[2],
                        !.view_height    = f[3],
                        !.view_width     = f[4],
                        !.view_xoff      = f[5],
                        !.view_yoff      = f[6],
                        !.num_data_cells = f[7],
                        !.no_data        = f[8] ]
      r   == resize(hdr, hdr.view_width, hdr.view_height, 0)
  IN  [ r EXCEPT !.data = [ k \in 1..viewSize(r) |-> f[HeaderFields + k] ] ]

SaveNative ==
  /\ a # NoArray
  /\ InBuffer(a)
  /\ file' = saveNative(a)
  /\ last' = Did("saveNative", << >>, 0)
  /\ UNCHANGED <<a, b, u>>

\* Array2D<T> b(filename, true): a fresh array loaded from the file
LoadNative ==
  /\ file # << >>
  /\ \E nd \in TVals : b' = loadNative(Array2D(nd), file)
  /\ last' = Did("loadNative", << >>, 0)
  /\ UNCHANGED <<a, u, file>>

(* ------------------------------- GDAL --------------------------------- *)

\* the pixel of a raster dataset at column x, row y
Pix(x, y) == IF (x + y) % 2 = 0 THEN 0 ELSE 255

\* no geotransform: GetGeoTransform does not return CE_None
NoGeo == << >>

\* the raster datasets a file name can stand for; openable = FALSE is a file
\* GDALOpen returns NULL for
Datasets ==
  [ openable : {TRUE}, width : 1..MaxCells, height : 1..MaxCells,
    no_data : {255}, geo : GeoVals \cup {NoGeo}, proj : {"WGS84"} ]

RasterDatasets == { d \in Datasets : d.width * d.height <= MaxCells }

Unopenable ==
  [ openable |-> FALSE, width |-> 1, height |-> 1, no_data |-> 255,
    geo |-> NoGeo, proj |-> "" ]

\* largest part_width and part_height asked of loadGDAL: windows smaller
\* than, equal to and larger than the datasets
MaxPart == MaxCells \div 2

\* largest xoffset and yoffset given to saveGDAL
MaxShift == 2

\* the window loadGDAL reads: <<view_width, view_height>>
loadWindow(d, xOffset, yOffset, part_width, part_height) ==
  LET pw1 == IF xOffset + part_width >= d.width
             THEN d.width - xOffset ELSE part_width
      ph1 == IF yOffset + part_height >= d.height
             THEN d.height - yOffset ELSE part_height
  IN  << IF pw1 = 0 THEN d.width  ELSE pw1,
         IF ph1 = 0 THEN d.height ELSE ph1 >>

\* band->RasterIO(GF_Read, xOffset, y, view_width, 1, ...) returns CE_None:
\* the window lies inside the raster and the read itself did not fail
ReadRowOk(d, xOffset, y, view_width, ioOk) ==
  ioOk /\ xOffset + view_width <= d.width /\ y < d.height

\* the array loadGDAL leaves when every row was read
loadGDAL(A, d, xOffset, yOffset, part_width, part_height) ==
  LET win == loadWindow(d, xOffset, yOffset, part_width, part_height)
      hdr == [ A EXCEPT !.geotransform = d.geo,
                        !.projection   = d.proj,
                        !.total_width  = d.width,
                        !.total_height = d.height,
                        !.no_data      = d.no_data,
                        !.view_width   = win[1],
                        !.view_height  = win[2],
                        !.view_xoff    = xOffset,
                        !.view_yoff    = yOffset ]
      r   == resize(hdr, win[1], win[2], 0)
  IN  [ r EXCEPT !.data = [ k \in 1..viewSize(r) |->
          Pix(xOffset + ((k - 1) % r.view_width),
              yOffset + ((k - 1) \div r.view_width)) ] ]

\* Array2D<T> a(filename, false, xOffset, yOffset, part_width, part_height)
\* for a dataset of D, part_width and part_height in P, and reads that fail
\* or not as IO says. A constructor that throws leaves no object.
LoadGDALIn(D, IO, P) ==
  \E d \in D, ioOk \in IO, part_width \in P, part_height \in P :
  \E xOffset \in 0..(d.width - 1), yOffset \in 0..(d.height - 1) :
    LET args == <<d, xOffset, yOffset, part_width, part_height, ioOk>>
        win  == loadWindow(d, xOffset, yOffset, part_width, part_height)
    IN
    /\ UNCHANGED <<b, u, file>>
    /\ IF ~d.openable
       THEN /\ a' = NoArray
            /\ last' = DidIO("loadGDAL", args, 0,
                             "Could not open a GDAL file!", "none", NoDataset)
       ELSE IF d.geo = NoGeo
       THEN /\ a' = NoArray
            /\ last' = DidIO("loadGDAL", args, 0,
                             "Error getting geotransform!", "open", NoDataset)
       ELSE IF \E y \in yOffset..(yOffset + win[2] - 1) :
                 ~ReadRowOk(d, xOffset, y, win[1], ioOk)
       THEN /\ a' = NoArray
            /\ last' = DidIO("loadGDAL", args, 0,
                             "Error reading file with GDAL!", "open", NoDataset)
       ELSE /\ \E nd \in TVals :
                 a' = loadGDAL(Array2D(nd), d, xOffset, yOffset,
                               part_width, part_height)
            /\ last' = DidIO("loadGDAL", args, 0, "", "closed", NoDataset)

LoadGDAL == LoadGDALIn(RasterDatasets \cup {Unopenable}, BOOLEAN, 0..MaxPart)

\* getGDALDimensions(filename, height, width, dtype, geotransform) on a file
\* GDALOpen opens; wantGeo: the geotransform argument is not NULL
GetGDALDimensions ==
  \E d \in RasterDatasets, wantGeo \in BOOLEAN :
    /\ UNCHANGED <<a, b, u, file>>
    /\ IF wantGeo /\ d.geo = NoGeo
       THEN last' = DidIO("getGDALDimensions", <<wantGeo>>, -1, "", "open",
                          NoDataset)
       ELSE last' = DidIO("getGDALDimensions", <<wantGeo>>, 0, "", "closed",
                          [ height |-> d.height, width |-> d.width ])

\* saveGDAL shifting the origin's second coordinate by pixel widths
saveGDALOutWidth(A, xoffset, yoffset, rows) ==
  [ width        |-> A.view_width,
    height       |-> A.view_height,
    no_data      |-> A.no_data,
    geotransform |-> [ A.geotransform EXCEPT
                         ![1] = @ + xoffset * A.geotransform[2],
                         ![4] = @ + yoffset * A.geotransform[2] ],
    projection   |-> A.projection,
    pixels       |-> [ k \in 1..(rows * A.view_width) |-> A.data[k] ] ]

\* the dataset saveGDAL has written once `rows` rows went out: created
\* view_width x view_height, no-data, shifted geotransform, projection, rows
saveGDALOut(A, xoffset, yoffset, rows) ==
  [ width        |-> A.view_width,
    height       |-> A.view_height,
    no_data      |-> A.no_data,
    geotransform |-> [ A.geotransform EXCEPT
                         ![1] = @ + xoffset * A.geotransform[2],
                         ![4] = @ + yoffset * A.geotransform[6] ],
    projection   |-> A.projection,
    pixels       |-> [ k \in 1..(rows * A.view_width) |-> A.data[k] ] ]

\* a.saveGDAL(filename, xoffset, yoffset) on an array that has a
\* geotransform. outcome: what GDAL does; failRow: the row whose write fails
SaveGDAL ==
  /\ a # NoArray
  /\ Len(a.geotransform) = 6
  /\ InBuffer(a)
  /\ \E xoffset \in 0..MaxShift, yoffset \in 0..MaxShift,
        outcome \in {"nodriver", "nocreate", "rowfail", "ok"},
        failRow \in 0..(a.view_height - 1) :
       LET args == <<xoffset, yoffset, a.geotransform>> IN
       /\ outcome # "rowfail" => failRow = 0
       /\ UNCHANGED <<a, b, u, file>>
       /\ last' =
            CASE outcome = "nodriver" ->
                   DidIO("saveGDAL", args, 0, "Could not load GTiff driver!",
                         "none", NoDataset)
              [] outcome = "nocreate" ->
                   DidIO("saveGDAL", args, 0, "Could not open output file!",
                         "none", NoDataset)
              [] outcome = "rowfail" ->
                   DidIO("saveGDAL", args, 0, "Error saving file with GDAL!",
                         "open", saveGDALOut(a, xoffset, yoffset, failRow))
              [] outcome = "ok" ->
                   DidIO("saveGDAL", args, 0, "", "closed",
                         saveGDALOut(a, xoffset, yoffset, a.view_height))

(* ---------------------- two arrays: == and = -------------------------- *)

\* most cells of the arrays that are compared or assigned
MaxPairCells == 2

PairShapes ==
  { s \in (0..MaxPairCells) \X (0..MaxPairCells) : s[1] * s[2] <= MaxPairCells }

ConstructSmall == ConstructSizedIn(PairShapes)

\* a.geotransform = g: geotransform is a public member
SetGeotransform ==
  \E g \in GeoVals :
    /\ a # NoArray
    /\ a' = [ a EXCEPT !.geotransform = g ]
    /\ last' = Did("geotransform=", <<g>>, 0)
    /\ UNCHANGED <<b, u, file>>

\* the dataset the windows of the two-array scenarios are read from
WindowDataset ==
  [ openable |-> TRUE, width |-> 2, height |-> 2, no_data |-> 255,
    geo |-> CHOOSE g \in GeoVals : TRUE, proj |-> "WGS84" ]

\* windows of one cell, and of one cell and more, of that dataset
LoadCell == LoadGDALIn({WindowDataset}, {TRUE}, {1})

LoadWindow == LoadGDALIn({WindowDataset}, {TRUE}, 1..MaxPart)

\* Array2D<T> b(a): the implicit copy constructor copies every member
CopyToB ==
  /\ a # NoArray
  /\ b' = a
  /\ last' = Did("Array2D(a)", << >>, 0)
  /\ UNCHANGED <<a, u, file>>

\* operator== that also compares the view offsets
equalsOffsets(A, O) ==
  /\ A.view_width = O.view_width /\ A.view_height = O.view_height
  /\ A.view_xoff = O.view_xoff /\ A.view_yoff = O.view_yoff
  /\ A.no_data = O.no_data
  /\ \A i \in 0..(viewSize(A) - 1) : A.data[i + 1] = O.data[i + 1]

\* operator==(const Array2D<T> &o)
equals(A, O) ==
  IF A.view_width # O.view_width \/ A.view_height # O.view_height
  THEN FALSE
  ELSE IF A.no_data # O.no_data
  THEN FALSE
  ELSE \A i \in 0..(viewSize(A) - 1) : A.data[i + 1] = O.data[i + 1]

\* a == b
Equals ==
  /\ a # NoArray /\ b # NoArray
  /\ InBuffer(a) /\ InBuffer(b)
  /\ last' = Did("operator==", << >>, equals(a, b))
  /\ UNCHANGED <<a, b, u, file>>

\* Array2D<U> u(width, height, val)
ConstructU ==
  \E s \in PairShapes, val \in UVals, nd \in UVals :
    /\ u' = resize(Array2D(nd), s[1], s[2], val)
    /\ last' = Did("Array2D<U>(w,h,val)", <<s[1], s[2], val>>, 0)
    /\ UNCHANGED <<a, b, file>>

\* u(i) = val
SetCellU ==
  /\ u # NoArray
  /\ \E i \in 0..(viewSize(u) - 1), val \in UVals :
       /\ u' = setCell(u, i, val)
       /\ last' = Did("u.operator()", <<i, val>>, 0)
       /\ UNCHANGED <<a, b, file>>

SetNoDataU ==
  \E ndval \in UVals :
    /\ u # NoArray
    /\ u' = setNoData(u, ndval)
    /\ last' = Did("u.setNoData", <<ndval>>, 0)
    /\ UNCHANGED <<a, b, file>>

NumDataCellsU ==
  /\ u # NoArray
  /\ u' = numDataCells(u)
  /\ last' = Did("u.numDataCells", << >>, u'.num_data_cells)
  /\ UNCHANGED <<a, b, file>>

\* u.geotransform = g; u.projection = p: both are public members
SetGeoProjU ==
  \E g \in GeoVals, p \in ProjVals :
    /\ u # NoArray
    /\ u' = [ u EXCEPT !.geotransform = g, !.projection = p ]
    /\ last' = Did("u.geotransform=,projection=", <<g, p>>, 0)
    /\ UNCHANGED <<a, b, file>>

\* a = u
Assign ==
  /\ u # NoArray
  /\ a' = assign(a, u)
  /\ last' = Did("operator=(u)", << >>, 0)
  /\ UNCHANGED <<b, u, file>>

(* --------------------------- specifications --------------------------- *)

\* coordinate queries on arrays of every shape
NextCoord ==
  \/ ConstructSized
  \/ Resize
  \/ NToI

SpecCoord == Init /\ [][NextCoord]_vars

\* raster load, raster save and the header read
NextGDAL ==
  \/ LoadGDAL
  \/ SaveGDAL
  \/ GetGDALDimensions

SpecGDAL == Init /\ [][NextGDAL]_vars

\* the native round trip: an array is built, saved, and loaded into a fresh
\* array b; the array is left alone once it is on disk
Unsaved == file = << >>

NextNative ==
  \/ (Unsaved /\ ConstructSized)
  \/ (Unsaved /\ LoadWindow)
  \/ (Unsaved /\ SetCell)
  \/ (Unsaved /\ SetNoData)
  \/ (Unsaved /\ NumDataCells)
  \/ SaveNative
  \/ LoadNative

SpecNative == Init /\ [][NextNative]_vars

\* two arrays of one element type, compared
NextEq ==
  \/ ConstructSmall
  \/ LoadCell
  \/ SetCell
  \/ SetNoData
  \/ SetGeotransform
  \/ CopyToB
  \/ Equals

SpecEq == Init /\ [][NextEq]_vars

\* an Array2D<U> assigned to the Array2D<T>
NextAssign ==
  \/ ConstructU
  \/ SetCellU
  \/ SetNoDataU
  \/ NumDataCellsU
  \/ SetGeoProjU
  \/ Assign

SpecAssign == Init /\ [][NextAssign]_vars

(* ------------------------------ claims -------------------------------- *)

\* the cells of A that differ from its no_data, counted over the buffer
DataCells(A) == Cardinality({ i \in 1..Len(A.data) : A.data[i] # A.no_data })

\* total and view extents never differ: resize sets both, and loadGDAL and
\* loadNative call resize after they set total_width and total_height
TotalIsView ==
  /\ a # NoArray =>
       a.total_width = a.view_width /\ a.total_height = a.view_height
  /\ b # NoArray =>
       b.total_width = b.view_width /\ b.total_height = b.view_height

C2_NumDataCellsExact ==
  last.op = "numDataCells" => last.ret = DataCells(a)

\* C3: a raster load that GDAL serves (the file opens, has a geotransform,
\* no read fails by itself) with 0 <= xOffset < totalWidth yields a view whose
\* width is totalWidth - xOffset when part_width is 0 or xOffset + part_width
\* exceeds totalWidth and part_width otherwise, the same for the height, and
\* that lies inside the total extent.
C3_WindowIsIntersection ==
  (last.op = "loadGDAL" /\ last.args[1].openable /\ last.args[1].geo # NoGeo
     /\ last.args[6]) =>
    LET d    == last.args[1]
        xOff == last.args[2]
        yOff == last.args[3]
        pw   == last.args[4]
        ph   == last.args[5]
    IN  /\ a # NoArray
        /\ a.view_width  = IF pw = 0 \/ xOff + pw > d.width
                           THEN d.width - xOff ELSE pw
        /\ a.view_height = IF ph = 0 \/ yOff + ph > d.height
                           THEN d.height - yOff ELSE ph
        /\ a.view_xoff + a.view_width  <= a.total_width
        /\ a.view_yoff + a.view_height <= a.total_height

\* C4: nToI(i, dx, dy) is -1 exactly when the cell (i mod view_width + dx,
\* i div view_width + dy) lies outside the view, and is y*view_width + x of
\* that cell otherwise.
C4_NToISentinel ==
  last.op = "nToI" =>
    LET x == (last.args[1] % a.view_width) + last.args[2]
        y == (last.args[1] \div a.view_width) + last.args[3]
        inside == 0 <= x /\ x < a.view_width /\ 0 <= y /\ y < a.view_height
    IN  /\ (last.ret = -1) <=> ~inside
        /\ inside => last.ret = y * a.view_width + x

\* C5: after a = u the target holds the source's total_width, total_height,
\* view_width, view_height, view_xoff, view_yoff, num_data_cells,
\* geotransform and projection, its no_data converted to T, and every cell
\* converted to T.
C5_AssignCopiesAll ==
  last.op = "operator=(u)" =>
    /\ a.total_width    = u.total_width
    /\ a.total_height   = u.total_height
    /\ a.view_width     = u.view_width
    /\ a.view_height    = u.view_height
    /\ a.view_xoff      = u.view_xoff
    /\ a.view_yoff      = u.view_yoff
    /\ a.num_data_cells = u.num_data_cells
    /\ a.geotransform   = u.geotransform
    /\ a.projection     = u.projection
    /\ a.no_data        = u.no_data % 256
    /\ Len(a.data)      = Len(u.data)
    /\ \A k \in 1..Len(u.data) : a.data[k] = u.data[k] % 256

\* C6: a == b is true exactly when the view widths and heights match, the
\* no_data values match and every cell matches; nothing else is compared.
C6_EqualityIff ==
  last.op = "operator==" =>
    (last.ret <=>
       /\ a.view_width = b.view_width
       /\ a.view_height = b.view_height
       /\ a.no_data = b.no_data
       /\ \A k \in 1..Len(a.data) : a.data[k] = b.data[k])

\* two arrays of one cell with equal pixels and no_data, at different view
\* offsets and with different geotransforms, have compared equal
C6_Witness ==
  /\ last.op = "operator=="
  /\ last.ret
  /\ Len(a.data) = 1
  /\ a.view_xoff # b.view_xoff
  /\ a.view_yoff # b.view_yoff
  /\ a.geotransform # b.geotransform

\* C7: a saveGDAL at (xoffset, yoffset) that returns has written a dataset of
\* view_width x view_height whose geotransform is [g0 + xoffset*g1, g1, g2,
\* g3 + yoffset*g5, g4, g5], whose pixels are the buffer's rows, and has left
\* the array's geotransform [g0..g5] as it was.
C7_SaveGDALShift ==
  (last.op = "saveGDAL" /\ last.exc = "") =>
    LET xoffset == last.args[1]
        yoffset == last.args[2]
        g       == last.args[3]
    IN  /\ last.out.geotransform =
             << g[1] + xoffset * g[2], g[2], g[3],
                g[4] + yoffset * g[6], g[5], g[6] >>
        /\ last.out.width  = a.view_width
        /\ last.out.height = a.view_height
        /\ last.out.pixels = a.data
        /\ a.geotransform  = g

\* a window of two different cells was saved at xoffset 2, yoffset 1
C7_Witness ==
  /\ last.op = "saveGDAL" /\ last.exc = ""
  /\ last.args[1] = 2 /\ last.args[2] = 1
  /\ Len(a.data) >= 2
  /\ a.data[1] # a.data[2]
  /\ Len(last.out.pixels) = Len(a.data)

\* C8: after resize(width, height, fill) the buffer has width*height cells,
\* each equal to fill, and total_width = view_width = width and
\* total_height = view_height = height.
C8_ResizePost ==
  last.op = "resize" =>
    LET width  == last.args[1]
        height == last.args[2]
        fill   == last.args[3]
    IN  /\ Len(a.data) = width * height
        /\ \A k \in 1..Len(a.data) : a.data[k] = fill
        /\ a.total_width  = width  /\ a.view_width  = width
        /\ a.total_height = height /\ a.view_height = height

\* a resize to 2x2 of an array whose buffer held exactly one data cell when
\* its cells were counted: the old cells were not all alike
C8_Witness ==
  /\ last.op = "resize"
  /\ last.args[1] = 2 /\ last.args[2] = 2
  /\ a.num_data_cells = 1

\* C9: the pixel buffer's length is view_width*view_height in every state.
C9_BufferLengthIsViewSize ==
  a # NoArray => Len(a.data) = a.view_width * a.view_height

\* C10: no loadGDAL, saveGDAL or getGDALDimensions has ended, by returning or
\* by throwing, with the dataset handle it opened or created still open.
C10_HandlesReleased ==
  last.handle # "open"

====
